---- MODULE Spec2Model ----
(***************************************************************************)
(* Two per-event producers of the HLT:                                     *)
(*   HLTPFDiJetCorrCheckerWithDiTau  (RecoTauTag/HLTProducers)             *)
(*   HLTCaloJetTimingProducer        (HLTrigger/JetMET)                    *)
(* Each producer is stateless across events: the host hands it the input   *)
(* collections of one event and the configuration fixed at construction,   *)
(* and produce() puts the output collections.  An event is modelled as an  *)
(* initial state; produce() is one action.                                 *)
(***************************************************************************)
EXTENDS Integers, Sequences, FiniteSets, TLC

(* ------------------------------ bounds -------------------------------- *)
\* PFJets in one event of the di-jet/di-tau checker
MaxJets == 3
\* filtered PFTaus in one event of the di-jet/di-tau checker
MaxTaus == 3
\* CaloJets in one event of the timing producer
MaxCaloJets == 2
\* EcalRecHits of the barrel and of the endcap collection in one event
MaxEBHits == 2
MaxEEHits == 1
\* EcalRecHits handed to one call of jetTimeFromEcalCells taken alone
MaxScanHits == 3
\* significand bits of the model's float (a C++ float has 24); a double is
\* wide enough for every intermediate of the model and is taken as exact
MantBits == 5

(* -------------------------- generic helpers --------------------------- *)
Abs(n) == IF n < 0 THEN -n ELSE n

Min(a, b) == IF a < b THEN a ELSE b

SeqsUpTo(S, n) == UNION {[1..k -> S] : k \in 0..n}

(***************************************************************************)
(*                  HLTPFDiJetCorrCheckerWithDiTau                         *)
(*                                                                         *)
(* Kinematics.  Jets and taus are massless and lie in the transverse       *)
(* plane (eta = 0); phi is counted in quarter turns (unit pi/2), pt in     *)
(* integer units.  Then deltaR2 = deltaPhi^2 (unit (pi/2)^2) and the       *)
(* invariant mass of a pair obeys M^2 = 2 pt1 pt2 (1 - cos(deltaPhi)),     *)
(* both exact in integers.  dRmin is given in the same angular unit.       *)
(***************************************************************************)
VARIABLES
  pfJets,          \* input reco::PFJetCollection (sequence of [pt, phi])
  taus,            \* input trigger::VRpftau      (sequence of [pt, phi])
  extraTauPtCut,   \* extraTauPtCut_
  mjjMin,          \* mjjMin_
  dRmin,           \* configuration parameter dRmin (matchingR2_ is its square)
  cleanedPFJets,   \* output reco::PFJetCollection
  indices,         \* the std::set<unsigned int> at the end of produce()
  matchedPairs,    \* history: the (iJet1, iJet2) for which correctComb was true
  filterDone       \* produce() has run on this event

filterVars == <<pfJets, taus, extraTauPtCut, mjjMin, dRmin,
                cleanedPFJets, indices, matchedPairs, filterDone>>

JetPts == {1, 2}
JetPhis == {0, 2}
MjjMinValues == {1, 3}
ExtraTauPtCutValues == {2}
DRminValues == {1}

PFJetValues == [pt : JetPts, phi : JetPhis]
\* taus: a soft and a hard one a quarter turn off the jet axes, and a hard
\* one on the axis phi = 0
PFTauValues == {[pt |-> 1, phi |-> 1], [pt |-> 2, phi |-> 1], [pt |-> 2, phi |-> 0]}

\* cos of an angle given in quarter turns
CosQuarter(d) == CASE d % 4 = 0 -> 1
                   [] d % 4 = 2 -> -1
                   [] OTHER -> 0

\* reco::deltaPhi: the difference reduced to (-pi, pi], in quarter turns
DeltaPhi(a, b) == LET d == (a.phi - b.phi) % 4 IN IF d > 2 THEN d - 4 ELSE d

\* reco::deltaR2(p4a, p4b) = deta^2 + dphi^2, with eta = 0 for every object
DeltaR2(a, b) == DeltaPhi(a, b) * DeltaPhi(a, b)

\* (p4_1 + p4_2).M2() for two massless momenta at eta = 0
Mjj2(j1, j2) == 2 * j1.pt * j2.pt * (1 - CosQuarter(j1.phi - j2.phi))

\* line 76: (myPFJet1.p4() + myPFJet2.p4()).M() < mjjMin_ ; M() >= 0 here
MassBelowMut(j1, j2, cut) == cut > 0 /\ Mjj2(j1, j2) > cut * cut

MassBelow(j1, j2, cut) == cut > 0 /\ Mjj2(j1, j2) < cut * cut

\* line 53: matchingR2_(std::pow(dRmin, 2))
MatchingR2(dR) == dR * dR

\* lines 91-92: both taus below the leading-pt cut
BothTausBelowMut(t1, t2, cut) == t1.pt < cut \/ t2.pt < cut

BothTausBelow(t1, t2, cut) == t1.pt < cut /\ t2.pt < cut

\* lines 85-95: the iTau2 loop; returns correctComb
RECURSIVE TauLoop2(_, _, _, _, _, _, _, _, _)
TauLoop2(J, T, cut, R2, iJet1, iJet2, iTau1, iTau2, correctComb) ==
  IF iTau2 > Len(T) THEN correctComb
  ELSE IF DeltaR2(T[iTau2], J[iJet1]) < R2
         THEN TauLoop2(J, T, cut, R2, iJet1, iJet2, iTau1, iTau2 + 1, correctComb)
  ELSE IF DeltaR2(T[iTau2], J[iJet2]) < R2
         THEN TauLoop2(J, T, cut, R2, iJet1, iJet2, iTau1, iTau2 + 1, correctComb)
  ELSE IF BothTausBelow(T[iTau1], T[iTau2], cut)
         THEN TauLoop2(J, T, cut, R2, iJet1, iJet2, iTau1, iTau2 + 1, correctComb)
  ELSE TauLoop2(J, T, cut, R2, iJet1, iJet2, iTau1, iTau2 + 1, TRUE)

\* lines 79-96: the iTau1 loop; returns correctComb
RECURSIVE TauLoop1(_, _, _, _, _, _, _, _)
TauLoop1(J, T, cut, R2, iJet1, iJet2, iTau1, correctComb) ==
  IF iTau1 > Len(T) THEN correctComb
  ELSE IF DeltaR2(T[iTau1], J[iJet1]) < R2
         THEN TauLoop1(J, T, cut, R2, iJet1, iJet2, iTau1 + 1, correctComb)
  ELSE IF DeltaR2(T[iTau1], J[iJet2]) < R2
         THEN TauLoop1(J, T, cut, R2, iJet1, iJet2, iTau1 + 1, correctComb)
  ELSE TauLoop1(J, T, cut, R2, iJet1, iJet2, iTau1 + 1,
                TauLoop2(J, T, cut, R2, iJet1, iJet2, iTau1, iTau1 + 1, correctComb))

\* lines 72-96: correctComb of one jet pair that passed the mass cut
CorrectComb(J, T, cut, R2, iJet1, iJet2) ==
  TauLoop1(J, T, cut, R2, iJet1, iJet2, 1, FALSE)

\* lines 98-101: indices.insert(iJet1); indices.insert(iJet2)
InsertPair(matched, iJet1, iJet2) == matched \cup {<<iJet1, iJet2>>}

\* lines 71-102: the iJet2 loop; accumulates the matched pairs
RECURSIVE JetLoop2(_, _, _, _, _, _, _, _)
JetLoop2(J, T, cut, mmin, R2, iJet1, iJet2, matched) ==
  IF iJet2 > Len(J) THEN matched
  ELSE IF MassBelow(J[iJet1], J[iJet2], mmin)
         THEN JetLoop2(J, T, cut, mmin, R2, iJet1, iJet2 + 1, matched)
  ELSE IF CorrectComb(J, T, cut, R2, iJet1, iJet2)
         THEN JetLoop2(J, T, cut, mmin, R2, iJet1, iJet2 + 1,
                       InsertPair(matched, iJet1, iJet2))
  ELSE JetLoop2(J, T, cut, mmin, R2, iJet1, iJet2 + 1, matched)

\* lines 70-103: the iJet1 loop
RECURSIVE JetLoop1(_, _, _, _, _, _, _)
JetLoop1(J, T, cut, mmin, R2, iJet1, matched) ==
  IF iJet1 > Len(J) THEN matched
  ELSE JetLoop1(J, T, cut, mmin, R2, iJet1 + 1,
                JetLoop2(J, T, cut, mmin, R2, iJet1, iJet1 + 1, matched))

\* lines 69-103: the pairs whose two indices are inserted into `indices`
MatchedPairs(J, T, cut, mmin, dR) ==
  IF Len(J) > 1 /\ Len(T) > 1
    THEN JetLoop1(J, T, cut, mmin, MatchingR2(dR), 1, {})
    ELSE {}

\* the content of std::set<unsigned int> indices after the loops
IndexSet(matched) == {p[1] : p \in matched} \cup {p[2] : p \in matched}

\* line 59: cleanedPFJets(new reco::PFJetCollection), an empty collection
NewPFJetCollectionMut == pfJets

NewPFJetCollection == << >>

\* lines 105-106: push_back((*pfJets)[i]) for i in ascending order of the set
RECURSIVE PushBackIndices(_, _, _)
PushBackIndices(J, idx, out) ==
  IF idx = {} THEN out
  ELSE LET i == CHOOSE x \in idx : \A y \in idx : x <= y
       IN PushBackIndices(J, idx \ {i}, Append(out, J[i]))

\* GreaterByPt<reco::PFJet>::operator(): t1.pt() > t2.pt()
GreaterByPtMut(t1, t2) == t1.pt < t2.pt

GreaterByPt(t1, t2) == t1.pt > t2.pt

\* std::sort on a short range is an insertion sort: each element moves left
\* past the elements the comparator orders after it
RECURSIVE InsertSorted(_, _)
InsertSorted(s, x) ==
  IF s = << >> THEN <<x>>
  ELSE IF GreaterByPt(x, s[Len(s)])
         THEN Append(InsertSorted(SubSeq(s, 1, Len(s) - 1), x), s[Len(s)])
  ELSE Append(s, x)

RECURSIVE SortByPt(_, _, _)
SortByPt(s, i, out) ==
  IF i > Len(s) THEN out ELSE SortByPt(s, i + 1, InsertSorted(out, s[i]))

\* lines 105-109: the jets of `idx` pushed back, then sorted in pt
SortedJets(J, idx) == SortByPt(PushBackIndices(J, idx, NewPFJetCollection), 1, << >>)

InitFilter ==
  /\ pfJets \in SeqsUpTo(PFJetValues, MaxJets)
  /\ taus \in SeqsUpTo(PFTauValues, MaxTaus)
  /\ extraTauPtCut \in ExtraTauPtCutValues
  /\ mjjMin \in MjjMinValues
  /\ dRmin \in DRminValues
  /\ cleanedPFJets = << >>
  /\ indices = {}
  /\ matchedPairs = {}
  /\ filterDone = FALSE

\* HLTPFDiJetCorrCheckerWithDiTau::produce
ProduceFilter ==
  /\ ~filterDone
  /\ LET matched == MatchedPairs(pfJets, taus, extraTauPtCut, mjjMin, dRmin)
     IN /\ matchedPairs' = matched
        /\ indices' = IndexSet(matched)
        /\ cleanedPFJets' = SortedJets(pfJets, IndexSet(matched))
  /\ filterDone' = TRUE
  /\ UNCHANGED <<pfJets, taus, extraTauPtCut, mjjMin, dRmin>>

(* ------------------- properties of the di-jet checker ------------------ *)
JetIdx == 1..Len(pfJets)
TauIdx == 1..Len(taus)

\* the tau pair (t1, t2) keeps clear of both jets and passes the leading-pt cut
TauPairQualifies(j1, j2, t1, t2) ==
  /\ \A t \in {t1, t2} : \A j \in {j1, j2} :
        DeltaR2(taus[t], pfJets[j]) >= dRmin * dRmin
  /\ taus[t1].pt >= extraTauPtCut \/ taus[t2].pt >= extraTauPtCut

\* the jet pair (j1, j2) reaches the mass threshold m and has a tau pair
JetPairQualifies(j1, j2, m) ==
  /\ j1 < j2
  /\ m <= 0 \/ Mjj2(pfJets[j1], pfJets[j2]) >= m * m
  /\ \E t1, t2 \in TauIdx : t1 < t2 /\ TauPairQualifies(j1, j2, t1, t2)

QualifyingJets(m) ==
  {j \in JetIdx : \E j1, j2 \in JetIdx : j \in {j1, j2} /\ JetPairQualifies(j1, j2, m)}

RangeOf(s) == {s[i] : i \in DOMAIN s}

C2_MatchedTausMutuallyIsolated ==
  filterDone =>
    \A p \in matchedPairs :
      \E t1, t2 \in TauIdx :
        /\ t1 < t2
        /\ TauPairQualifies(p[1], p[2], t1, t2)
        /\ DeltaR2(taus[t1], taus[t2]) >= dRmin * dRmin

\* C5: fewer than 2 jets or fewer than 2 taus give an empty output.
C5_EmptyBelowTwo ==
  (filterDone /\ (Len(pfJets) < 2 \/ Len(taus) < 2)) => cleanedPFJets = << >>

C5_Witness ==
  /\ filterDone
  /\ Len(pfJets) >= 2
  /\ Len(taus) = 1
  /\ Mjj2(pfJets[1], pfJets[2]) >= mjjMin * mjjMin
  /\ taus[1].pt >= extraTauPtCut
  /\ \A j \in JetIdx : DeltaR2(taus[1], pfJets[j]) >= dRmin * dRmin
  /\ cleanedPFJets = << >>

\* C6: the output is ordered non-increasing in pt.
C6_OutputSortedByPt ==
  filterDone =>
    \A i \in 1..(Len(cleanedPFJets) - 1) :
      cleanedPFJets[i].pt >= cleanedPFJets[i + 1].pt

C6_Witness ==
  /\ filterDone
  /\ Len(cleanedPFJets) >= 2
  /\ \E i, k \in indices : i < k /\ pfJets[i].pt < pfJets[k].pt
  /\ cleanedPFJets[1].pt > cleanedPFJets[Len(cleanedPFJets)].pt

\* C7: for the same jets, taus, extraTauPtCut and dRmin, the jets retained
\* with a larger mjjMin are among those retained with a smaller one.
C7_MonotoneInMjjMin ==
  filterDone =>
    \A m \in MjjMinValues \ {mjjMin} :
      LET retained == IndexSet(MatchedPairs(pfJets, taus, extraTauPtCut, m, dRmin))
      IN /\ m > mjjMin =>
              /\ retained \subseteq indices
              /\ RangeOf(SortedJets(pfJets, retained)) \subseteq RangeOf(cleanedPFJets)
         /\ m < mjjMin => indices \subseteq retained

C7_Witness ==
  /\ filterDone
  /\ \E m \in MjjMinValues :
       LET retained == IndexSet(MatchedPairs(pfJets, taus, extraTauPtCut, m, dRmin))
       IN m > mjjMin /\ retained # {} /\ retained # indices

(***************************************************************************)
(*                      HLTCaloJetTimingProducer                           *)
(*                                                                         *)
(* Numbers.  A float is a dyadic rational m * 2^e whose odd significand m  *)
(* has at most MantBits bits; every float operation rounds its exact       *)
(* result to nearest, ties to even (exponent range unbounded).  A value is *)
(* the record [m, e], m odd or m = e = 0, so equal records are equal       *)
(* numbers.                                                                *)
(*                                                                         *)
(* Geometry.  Cells and jets sit at phi = 0 and pseudorapidity             *)
(* pos * acosh(2), pos in {0, 1}; sin(theta) = 1 / cosh(eta) is then 1 or  *)
(* 1/2, and deltaR2 = (pos difference)^2 in units of acosh(2)^2.           *)
(***************************************************************************)
VARIABLES
  jets,                     \* input reco::CaloJetCollection (sequence of [pos])
  ecalRecHitsEB,            \* input barrel EcalRecHit collection
  ecalRecHitsEE,            \* input endcap EcalRecHit collection
  barrelJets,               \* barrelJets_
  endcapJets,               \* endcapJets_
  ecalCellEnergyThresh,     \* ecalCellEnergyThresh_
  ecalCellTimeThresh,       \* ecalCellTimeThresh_
  ecalCellTimeErrorThresh,  \* ecalCellTimeErrorThresh_
  matchingRadius2,          \* matchingRadius2_
  jetTimings,               \* output ValueMap<float> ""
  jetEcalEtForTiming,       \* output ValueMap<float> "jetEcalEtForTiming"
  jetCellsForTiming,        \* output ValueMap<unsigned int> "jetCellsForTiming"
  jetExact,                 \* history: no float operation for this jet rounded
  timingDone,               \* produce() has run on this event
  scanResult,               \* accumulators after one jetTimeFromEcalCells call
  scanDone                  \* that call has returned

timingVars == <<jets, ecalRecHitsEB, ecalRecHitsEE, barrelJets, endcapJets,
                ecalCellEnergyThresh, ecalCellTimeThresh, ecalCellTimeErrorThresh,
                matchingRadius2, jetTimings, jetEcalEtForTiming, jetCellsForTiming,
                jetExact, timingDone, scanResult, scanDone>>

Pow2(n) == 2 ^ n

\* number of bits of a natural number
RECURSIVE BitLen(_)
BitLen(n) == IF n = 0 THEN 0 ELSE 1 + BitLen(n \div 2)

RECURSIVE Norm(_, _)
Norm(m, e) == IF m = 0 THEN [m |-> 0, e |-> 0]
              ELSE IF m % 2 = 0 THEN Norm(m \div 2, e + 1)
              ELSE [m |-> m, e |-> e]

\* an integer as a number of the model
D(n) == Norm(n, 0)

\* exact sum and product (double arithmetic)
DAdd(x, y) == LET e == Min(x.e, y.e)
              IN Norm(x.m * Pow2(x.e - e) + y.m * Pow2(y.e - e), e)

DMul(x, y) == Norm(x.m * y.m, x.e + y.e)

DNeg(x) == [m |-> -x.m, e |-> x.e]

DAbs(x) == [m |-> Abs(x.m), e |-> x.e]

DLess(x, y) == DAdd(x, DNeg(y)).m < 0

\* conversion to float: round to MantBits significand bits, ties to even
Fl(x) ==
  LET a == Abs(x.m)
      k == BitLen(a) - MantBits
  IN IF k <= 0 THEN x
     ELSE LET p == Pow2(k)
              q == a \div p
              r == a % p
              up == 2 * r > p \/ (2 * r = p /\ q % 2 = 1)
              qq == IF up THEN q + 1 ELSE q
          IN Norm((IF x.m < 0 THEN -1 ELSE 1) * qq, x.e + k)

\* the quotient x / y with MantBits + 2 bits and a sticky bit, before rounding
DivWide(x, y) ==
  LET a == Abs(x.m)
      b == Abs(y.m)
      d == MantBits + 2 + BitLen(b) - BitLen(a)
      s == IF d > 0 THEN d ELSE 0
      n == a * Pow2(s)
      q == n \div b
      sticky == IF n % b # 0 THEN 1 ELSE 0
      sgn == IF (x.m < 0) # (y.m < 0) THEN -1 ELSE 1
  IN [v |-> Norm(sgn * (2 * q + sticky), x.e - y.e - s - 1), inexact |-> sticky = 1]

\* float division x / y, y # 0, correctly rounded
FlDiv(x, y) == Fl(DivWide(x, y).v)

DivExact(x, y) == LET d == DivWide(x, y) IN ~d.inexact /\ Fl(d.v) = d.v

\* line 137: the time emitted for a jet without energy sum
Sentinel == 50

CellPositions == {0, 1}
CaloJetValues == [pos : CellPositions]

\* reco::deltaR2(jet, pos): both at phi = 0
CellDeltaR2(jet, rh) == (jet.pos - rh.pos) * (jet.pos - rh.pos)

\* sin(pos.theta()) = 1 / cosh(eta): 1 at pos 0, 1/2 at pos 1
SinTheta(rh) == [m |-> 1, e |-> -rh.pos]

Hit(f, en, te, t, p) ==
  [flagged |-> f, energy |-> en, timeError |-> te, time |-> t, pos |-> p]

\* hits of the barrel collection: two of positive and one of negative energy
\* at pos 1, and one with a late time at pos 0
TimingHitValues ==
  { Hit(FALSE, 7, 1, 3, 1), Hit(FALSE, 2, 1, 1, 1),
    Hit(FALSE, -1, 1, 2, 1), Hit(FALSE, 2, 1, -4, 0) }

\* hits of the endcap collection: two of positive energy at pos 1
EndcapHitValues == { Hit(FALSE, 6, 1, 3, 1), Hit(FALSE, 2, 1, 1, 1) }

\* hits of a single scan: the above and one hit failing each remaining test
ScanHitValues ==
  TimingHitValues \cup EndcapHitValues \cup
  { Hit(TRUE, 6, 1, 1, 1), Hit(FALSE, 6, 0, 1, 1), Hit(FALSE, 6, 3, 1, 1) }

EnergyThreshValues == {-1, 1}
TimeThreshValues == {3}
TimeErrorThreshValues == {2}
MatchingRadius2Values == {0}

Thresholds(en, t, te, r2) ==
  [energy |-> en, time |-> t, timeError |-> te, radius2 |-> r2]

\* lines 87-99: the five tests of one hit, in the order of the code
EnergyBelowMut(rh, cfg) == rh.energy <= cfg.energy

EnergyBelow(rh, cfg) == rh.energy < cfg.energy

TimeBeyondMut(rh, cfg) == rh.time > cfg.time

TimeBeyond(rh, cfg) == Abs(rh.time) > cfg.time

CellSkipped(jet, rh, cfg) ==
  IF rh.flagged THEN TRUE
  ELSE IF EnergyBelow(rh, cfg) THEN TRUE
  ELSE IF rh.timeError <= 0 \/ rh.timeError > cfg.timeError THEN TRUE
  ELSE IF TimeBeyond(rh, cfg) THEN TRUE
  ELSE CellDeltaR2(jet, rh) > cfg.radius2

\* lines 100-102: the three accumulations for an accepted hit
\* weightedTimeCell += time * energy * sin(theta): the float product
\* time * energy, times the double sin, added in double, stored as float
Accumulate(acc, rh) ==
  LET te == DMul(D(rh.time), D(rh.energy))
      fte == Fl(te)
      w == DAdd(acc.weightedTimeCell, DMul(fte, SinTheta(rh)))
      fw == Fl(w)
      en == DAdd(acc.totalEmEnergyCell, DMul(D(rh.energy), SinTheta(rh)))
      fen == Fl(en)
  IN [weightedTimeCell |-> fw,
      totalEmEnergyCell |-> fen,
      nCells |-> acc.nCells + 1,
      exact |-> acc.exact /\ fte = te /\ fw = w /\ fen = en]

\* lines 86-103: the loop over the hit collection
RECURSIVE CellLoop(_, _, _, _, _)
CellLoop(jet, hits, cfg, i, acc) ==
  IF i > Len(hits) THEN acc
  ELSE IF CellSkipped(jet, hits[i], cfg) THEN CellLoop(jet, hits, cfg, i + 1, acc)
  ELSE CellLoop(jet, hits, cfg, i + 1, Accumulate(acc, hits[i]))

\* lines 104-106: weightedTimeCell /= totalEmEnergyCell when the sum is > 0
FinalDivide(acc) ==
  IF acc.totalEmEnergyCell.m > 0
    THEN [acc EXCEPT !.weightedTimeCell = FlDiv(acc.weightedTimeCell, acc.totalEmEnergyCell),
                     !.exact = acc.exact /\ DivExact(acc.weightedTimeCell, acc.totalEmEnergyCell)]
    ELSE acc

\* HLTCaloJetTimingProducer::jetTimeFromEcalCells, on accumulators passed by reference
JetTimeFromEcalCells(jet, hits, cfg, acc) == FinalDivide(CellLoop(jet, hits, cfg, 1, acc))

\* lines 126-128: float weightedTimeCell = 0; float totalEmEnergyCell = 0; nCells = 0
ZeroAccumulators ==
  [weightedTimeCell |-> D(0), totalEmEnergyCell |-> D(0), nCells |-> 0, exact |-> TRUE]

\* the accumulators at the top of the loop body, `prev` being those of the jet before
LoopAccumulatorsMut(prev) == prev

LoopAccumulators(prev) == ZeroAccumulators

\* line 132: weightedTimeCell *= totalEmEnergyCell
Rescale(acc) ==
  LET w == DMul(acc.weightedTimeCell, acc.totalEmEnergyCell)
      fw == Fl(w)
  IN [acc EXCEPT !.weightedTimeCell = fw, !.exact = acc.exact /\ fw = w]

\* lines 129-134: the scans of the enabled regions
JetAccumulators(jet, EB, EE, cfg, bj, ej, acc0) ==
  LET a1 == IF bj THEN JetTimeFromEcalCells(jet, EB, cfg, acc0) ELSE acc0
  IN IF ej THEN JetTimeFromEcalCells(jet, EE, cfg, Rescale(a1)) ELSE a1

\* line 137: totalEmEnergyCell > 0 ? weightedTimeCell : -50
EmittedTimeMut(acc) ==
  IF acc.totalEmEnergyCell.m >= 0 THEN acc.weightedTimeCell ELSE D(-Sentinel)

EmittedTime(acc) ==
  IF acc.totalEmEnergyCell.m > 0 THEN acc.weightedTimeCell ELSE D(-Sentinel)

\* lines 125-140: the loop over the jets; out holds the three vectors
RECURSIVE JetLoop(_, _, _, _, _, _, _, _, _)
JetLoop(J, EB, EE, cfg, bj, ej, i, prev, out) ==
  IF i > Len(J) THEN out
  ELSE LET acc == JetAccumulators(J[i], EB, EE, cfg, bj, ej, LoopAccumulators(prev))
       IN JetLoop(J, EB, EE, cfg, bj, ej, i + 1, acc,
                  [time |-> Append(out.time, EmittedTime(acc)),
                   energy |-> Append(out.energy, acc.totalEmEnergyCell),
                   cells |-> Append(out.cells, acc.nCells),
                   exact |-> Append(out.exact, acc.exact)])

\* lines 110-140: the three vectors the ValueMaps are filled from
TimingOutputs(J, EB, EE, cfg, bj, ej) ==
  JetLoop(J, EB, EE, cfg, bj, ej, 1, ZeroAccumulators,
          [time |-> << >>, energy |-> << >>, cells |-> << >>, exact |-> << >>])

Config == Thresholds(ecalCellEnergyThresh, ecalCellTimeThresh,
                     ecalCellTimeErrorThresh, matchingRadius2)

ConfigInit ==
  /\ ecalCellEnergyThresh \in EnergyThreshValues
  /\ ecalCellTimeThresh \in TimeThreshValues
  /\ ecalCellTimeErrorThresh \in TimeErrorThreshValues
  /\ matchingRadius2 \in MatchingRadius2Values

InitTiming ==
  /\ jets \in SeqsUpTo(CaloJetValues, MaxCaloJets)
  /\ ecalRecHitsEB \in SeqsUpTo(TimingHitValues, MaxEBHits)
  /\ ecalRecHitsEE \in SeqsUpTo(EndcapHitValues, MaxEEHits)
  /\ barrelJets \in BOOLEAN
  /\ endcapJets \in BOOLEAN
  /\ ConfigInit
  /\ jetTimings = << >>
  /\ jetEcalEtForTiming = << >>
  /\ jetCellsForTiming = << >>
  /\ jetExact = << >>
  /\ timingDone = FALSE
  /\ scanResult = ZeroAccumulators
  /\ scanDone = FALSE

\* HLTCaloJetTimingProducer::produce
ProduceTiming ==
  /\ ~timingDone
  /\ LET out == TimingOutputs(jets, ecalRecHitsEB, ecalRecHitsEE, Config,
                              barrelJets, endcapJets)
     IN /\ jetTimings' = out.time
        /\ jetEcalEtForTiming' = out.energy
        /\ jetCellsForTiming' = out.cells
        /\ jetExact' = out.exact
  /\ timingDone' = TRUE
  /\ UNCHANGED <<jets, ecalRecHitsEB, ecalRecHitsEE, barrelJets, endcapJets,
                 ecalCellEnergyThresh, ecalCellTimeThresh, ecalCellTimeErrorThresh,
                 matchingRadius2, scanResult, scanDone>>

\* one call of jetTimeFromEcalCells on a single jet and hit collection,
\* with the accumulators (0, 0, 0)
InitScan ==
  /\ jets \in [1..1 -> CaloJetValues]
  /\ ecalRecHitsEB \in SeqsUpTo(ScanHitValues, MaxScanHits)
  /\ ecalRecHitsEE = << >>
  /\ barrelJets = TRUE
  /\ endcapJets = FALSE
  /\ ConfigInit
  /\ jetTimings = << >>
  /\ jetEcalEtForTiming = << >>
  /\ jetCellsForTiming = << >>
  /\ jetExact = << >>
  /\ timingDone = FALSE
  /\ scanResult = ZeroAccumulators
  /\ scanDone = FALSE

ScanCall ==
  /\ ~scanDone
  /\ scanResult' = JetTimeFromEcalCells(jets[1], ecalRecHitsEB, Config, ZeroAccumulators)
  /\ scanDone' = TRUE
  /\ UNCHANGED <<jets, ecalRecHitsEB, ecalRecHitsEE, barrelJets, endcapJets,
                 ecalCellEnergyThresh, ecalCellTimeThresh, ecalCellTimeErrorThresh,
                 matchingRadius2, jetTimings, jetEcalEtForTiming, jetCellsForTiming,
                 jetExact, timingDone>>

(* ----------------- properties of the timing producer ------------------- *)
CaloJetIdx == 1..Len(jets)

\* a hit passes all five tests for this jet: no bad flag, energy, time
\* error, |time| and squared angular distance within the thresholds
CellAccepted(jet, rh) ==
  /\ ~rh.flagged
  /\ rh.energy >= ecalCellEnergyThresh
  /\ rh.timeError > 0 /\ rh.timeError <= ecalCellTimeErrorThresh
  /\ Abs(rh.time) <= ecalCellTimeThresh
  /\ CellDeltaR2(jet, rh) <= matchingRadius2

AcceptedIn(jet, hits) == {k \in DOMAIN hits : CellAccepted(jet, hits[k])}

\* the hits of the enabled regions that pass for this jet
NoEnabledHitAccepted(jet) ==
  /\ barrelJets => AcceptedIn(jet, ecalRecHitsEB) = {}
  /\ endcapJets => AcceptedIn(jet, ecalRecHitsEE) = {}

Triple(acc) == <<EmittedTime(acc), acc.totalEmEnergyCell, acc.nCells>>

EmittedTriple(i) == <<jetTimings[i], jetEcalEtForTiming[i], jetCellsForTiming[i]>>

\* C3 (as claimed): with both regions enabled, the barrel scan, the rescale
\* and the endcap scan emit the time, energy sum and cell count of one scan
\* of the concatenated hit collections started from (0, 0, 0).
C3_MergeEqualsSingleScan ==
  (timingDone /\ barrelJets /\ endcapJets) =>
    \A i \in CaloJetIdx :
      EmittedTriple(i) =
        Triple(JetTimeFromEcalCells(jets[i], ecalRecHitsEB \o ecalRecHitsEE,
                                    Config, ZeroAccumulators))

\* C4: under every combination of the region flags, a jet for which no hit
\* of an enabled region passes all tests gets exactly (-50, 0, 0), and a
\* cell count of 0 comes with energy sum 0 and the time -50.
C4_NoCellGivesSentinel ==
  timingDone =>
    \A i \in CaloJetIdx :
      /\ NoEnabledHitAccepted(jets[i]) => EmittedTriple(i) = <<D(-Sentinel), D(0), 0>>
      /\ jetCellsForTiming[i] = 0 =>
           jetEcalEtForTiming[i] = D(0) /\ jetTimings[i] = D(-Sentinel)

C4_Witness ==
  /\ timingDone
  /\ barrelJets
  /\ Len(ecalRecHitsEB) >= 1
  /\ \E i, k \in CaloJetIdx :
       /\ NoEnabledHitAccepted(jets[i])
       /\ EmittedTriple(i) = <<D(-Sentinel), D(0), 0>>
       /\ jetCellsForTiming[k] > 0

\* C9: each output has one entry per jet, in input order, and the entry of a
\* jet is what produce() emits for that jet alone, computed from (0, 0, 0).
C9_OneEntryPerJetIndependent ==
  timingDone =>
    /\ Len(jetTimings) = Len(jets)
    /\ Len(jetEcalEtForTiming) = Len(jets)
    /\ Len(jetCellsForTiming) = Len(jets)
    /\ \A i \in CaloJetIdx :
         LET alone == TimingOutputs(<<jets[i]>>, ecalRecHitsEB, ecalRecHitsEE,
                                    Config, barrelJets, endcapJets)
         IN EmittedTriple(i) = <<alone.time[1], alone.energy[1], alone.cells[1]>>

C9_Witness ==
  /\ timingDone
  /\ Len(jets) = 2
  /\ jetCellsForTiming[1] > 0
  /\ jetEcalEtForTiming[1].m > 0
  /\ EmittedTriple(2) # EmittedTriple(1)

InTimeWindow(t) == ~DLess(D(ecalCellTimeThresh), DAbs(t))

\* C10 (as claimed): with ecalCellEnergyThresh > 0 (every cell has
\* 0 < theta < pi), a time other than -50 lies within
\* [-ecalCellTimeThresh, +ecalCellTimeThresh], and with
\* ecalCellTimeThresh < 50 a jet with positive energy sum never gets -50.
C10_TimeWithinThreshold ==
  (timingDone /\ ecalCellEnergyThresh > 0) =>
    \A i \in CaloJetIdx :
      /\ jetTimings[i] # D(-Sentinel) => InTimeWindow(jetTimings[i])
      /\ (ecalCellTimeThresh < Sentinel /\ jetEcalEtForTiming[i].m > 0)
           => jetTimings[i] # D(-Sentinel)

\* C10 (amended): with ecalCellEnergyThresh > 0, a jet with positive energy
\* sum has at least one accepted cell, and when no float operation on its
\* accumulators rounded, its time lies within the time window and, for
\* ecalCellTimeThresh < 50, is not -50.
C10_TimeWithinThresholdWhenExact ==
  (timingDone /\ ecalCellEnergyThresh > 0) =>
    \A i \in CaloJetIdx :
      jetEcalEtForTiming[i].m > 0 =>
        /\ jetCellsForTiming[i] >= 1
        /\ jetExact[i] =>
             /\ InTimeWindow(jetTimings[i])
             /\ ecalCellTimeThresh < Sentinel => jetTimings[i] # D(-Sentinel)

C10_Witness ==
  /\ timingDone
  /\ ecalCellEnergyThresh > 0
  /\ barrelJets /\ endcapJets
  /\ \E i \in CaloJetIdx :
       /\ jetEcalEtForTiming[i].m > 0
       /\ jetCellsForTiming[i] >= 2
       /\ jetExact[i]
       /\ DLess(jetTimings[i], D(ecalCellTimeThresh))
       /\ DLess(D(-ecalCellTimeThresh), jetTimings[i])

(* ------------- properties of a single jetTimeFromEcalCells ------------- *)
ScanOf(hits) == JetTimeFromEcalCells(jets[1], hits, Config, ZeroAccumulators)

ScanTriple(acc) == <<acc.weightedTimeCell, acc.totalEmEnergyCell, acc.nCells>>

HitOrders(s) ==
  {[i \in 1..Len(s) |-> s[f[i]]] :
     f \in {g \in [1..Len(s) -> 1..Len(s)] : \A a, b \in 1..Len(s) : a # b => g[a] # g[b]}}

\* the exact sums over the accepted hits of time * energy * sin(theta)
\* and of energy * sin(theta)
RECURSIVE ExactSums(_, _)
ExactSums(hits, i) ==
  IF i > Len(hits) THEN [w |-> D(0), en |-> D(0)]
  ELSE LET rest == ExactSums(hits, i + 1)
           rh == hits[i]
       IN IF CellAccepted(jets[1], rh)
            THEN [w |-> DAdd(rest.w, DMul(DMul(D(rh.time), D(rh.energy)), SinTheta(rh))),
                  en |-> DAdd(rest.en, DMul(D(rh.energy), SinTheta(rh)))]
            ELSE rest

AcceptedSubsequence(hits) == SelectSeq(hits, LAMBDA rh : CellAccepted(jets[1], rh))

\* C8 (as claimed): a scan from (0, 0, 0) with energy sum > 0 returns the
\* quotient of the two sums over the accepted hits (read here as: the float
\* nearest to it), and returns the same (time, energy sum, count) for every
\* permutation of the hit collection.
C8_WeightedMeanAnyOrder ==
  scanDone =>
    /\ scanResult.totalEmEnergyCell.m > 0 =>
         /\ ExactSums(ecalRecHitsEB, 1).en.m > 0
         /\ scanResult.weightedTimeCell =
              FlDiv(ExactSums(ecalRecHitsEB, 1).w, ExactSums(ecalRecHitsEB, 1).en)
    /\ \A p \in HitOrders(ecalRecHitsEB) :
         ScanTriple(ScanOf(p)) = ScanTriple(scanResult)

\* C8 (amended): the scan accumulates exactly the hits that pass the five
\* tests, in collection order, with float rounding at every step; the count
\* is the number of those hits and is the same for every permutation; when
\* no step rounds and the energy sum is > 0, the energy sum and time are the
\* exact sum and quotient, and they agree with every permutation whose scan
\* does not round either.
C8_WeightedMeanUpToRounding ==
  scanDone =>
    /\ scanResult.nCells = Cardinality(AcceptedIn(jets[1], ecalRecHitsEB))
    /\ ScanTriple(scanResult) = ScanTriple(ScanOf(AcceptedSubsequence(ecalRecHitsEB)))
    /\ (scanResult.exact /\ scanResult.totalEmEnergyCell.m > 0) =>
         /\ scanResult.totalEmEnergyCell = ExactSums(ecalRecHitsEB, 1).en
         /\ DMul(scanResult.weightedTimeCell, scanResult.totalEmEnergyCell)
              = ExactSums(ecalRecHitsEB, 1).w
    /\ \A p \in HitOrders(ecalRecHitsEB) :
         /\ ScanOf(p).nCells = scanResult.nCells
         /\ (ScanOf(p).exact /\ scanResult.exact) =>
              ScanTriple(ScanOf(p)) = ScanTriple(scanResult)

C8_Witness ==
  /\ scanDone
  /\ Len(ecalRecHitsEB) = 3
  /\ scanResult.nCells = 2
  /\ scanResult.exact
  /\ scanResult.totalEmEnergyCell.m > 0
  /\ DLess(scanResult.weightedTimeCell, D(ecalCellTimeThresh))
  /\ DLess(D(-ecalCellTimeThresh), scanResult.weightedTimeCell)

vars == <<filterVars, timingVars>>

\* the producer that is not run keeps its variables
FilterIdle ==
  /\ pfJets = << >> /\ taus = << >>
  /\ extraTauPtCut = 0 /\ mjjMin = 0 /\ dRmin = 0
  /\ cleanedPFJets = << >> /\ indices = {} /\ matchedPairs = {}
  /\ filterDone = FALSE

TimingIdle ==
  /\ jets = << >> /\ ecalRecHitsEB = << >> /\ ecalRecHitsEE = << >>
  /\ barrelJets = FALSE /\ endcapJets = FALSE
  /\ ecalCellEnergyThresh = 0 /\ ecalCellTimeThresh = 0
  /\ ecalCellTimeErrorThresh = 0 /\ matchingRadius2 = 0
  /\ jetTimings = << >> /\ jetEcalEtForTiming = << >> /\ jetCellsForTiming = << >>
  /\ jetExact = << >> /\ timingDone = FALSE
  /\ scanResult = ZeroAccumulators /\ scanDone = FALSE

NextFilter == ProduceFilter /\ UNCHANGED timingVars

InitSpecFilter == InitFilter /\ TimingIdle

SpecFilter == InitSpecFilter /\ [][NextFilter]_vars

NextTiming == ProduceTiming /\ UNCHANGED filterVars

InitSpecTiming == InitTiming /\ FilterIdle

SpecTiming == InitSpecTiming /\ [][NextTiming]_vars

NextScan == ScanCall /\ UNCHANGED filterVars

InitSpecScan == InitScan /\ FilterIdle

SpecScan == InitSpecScan /\ [][NextScan]_vars

====
